---- MODULE Spec2Model ----
(***************************************************************************)
(* Model of crate.client.cursor.Cursor (src/src/crate/client/cursor.py):   *)
(* a DB-API cursor that paginates plain SELECTs through limit/offset       *)
(* batches, with its fetch surface, close() and executemany aggregation.   *)
(*                                                                         *)
(* Statements are sequences of one-character strings, so strip(), lower(), *)
(* the [:6] prefix test, find("limit"), endswith(";") and the formatting   *)
(* of the limit/offset suffix are computed character by character.         *)
(*                                                                         *)
(* The client (connection.client.sql) is outside the source.  It is        *)
(* modelled as a server holding `table`: a page call returns the slice of  *)
(* the table selected by its limit and offset; the answer to a probe call  *)
(* and to a direct call is drawn by the environment (accepted or rejected  *)
(* with ProgrammingError, with or without rows).  A statement whose probe  *)
(* was accepted is accepted with any limit/offset suffix.                  *)
(***************************************************************************)
EXTENDS Integers, Sequences, FiniteSets, TLC

(* ------------------------------ bounds -------------------------------- *)
MaxRows == 2        \* the server table holds 0..MaxRows rows
MaxBatch == 1       \* batch_size is the default or one of 1..MaxBatch
MaxCount == 2       \* fetchmany counts are 0..MaxCount, arraysize is 1..MaxCount
MaxParams == 2      \* parameter sets handed to executemany

(* ------------------------- program constants -------------------------- *)
DEFAULT_BATCH_SIZE == 10000
DEFAULT_ARRAYSIZE == 1
PREFIX_LEN == 6

(* ------------------------------ strings ------------------------------- *)
DigitChars == <<"0", "1", "2", "3", "4", "5", "6", "7", "8", "9">>

RECURSIVE IntToStr(_)
IntToStr(n) ==
    IF n < 10 THEN <<DigitChars[n + 1]>>
    ELSE IntToStr(n \div 10) \o <<DigitChars[(n % 10) + 1]>>

Whitespace == {" "}

LowerChar(ch) ==
    CASE ch = "S" -> "s" [] ch = "E" -> "e" [] ch = "L" -> "l"
      [] ch = "C" -> "c" [] ch = "T" -> "t" [] ch = "I" -> "i"
      [] ch = "M" -> "m" [] OTHER -> ch

Lower(s) == [i \in 1..Len(s) |-> LowerChar(s[i])]

RECURSIVE LStrip(_)
LStrip(s) ==
    IF s # <<>> /\ s[1] \in Whitespace THEN LStrip(Tail(s)) ELSE s

RECURSIVE RStrip(_)
RStrip(s) ==
    IF s # <<>> /\ s[Len(s)] \in Whitespace
    THEN RStrip(SubSeq(s, 1, Len(s) - 1)) ELSE s

Strip(s) == RStrip(LStrip(s))

\* str.find: index of the first occurrence (0-based), -1 when absent
Find(s, pat) ==
    LET hits == {i \in 1..(Len(s) - Len(pat) + 1) :
                    SubSeq(s, i, i + Len(pat) - 1) = pat}
    IN  IF hits = {} THEN -1
        ELSE (CHOOSE i \in hits : \A j \in hits : i <= j) - 1

EndsWith(s, pat) ==
    Len(s) >= Len(pat) /\ SubSeq(s, Len(s) - Len(pat) + 1, Len(s)) = pat

kw_select == <<"s", "e", "l", "e", "c", "t">>
kw_limit == <<"l", "i", "m", "i", "t">>
kw_offset == <<"o", "f", "f", "s", "e", "t">>
Semicolon == <<";">>
Space == <<" ">>

\* " limit 1", the suffix of the probe statement
PROBE_SUFFIX == Space \o kw_limit \o Space \o <<"1">>

\* OFFSET_LIMIT_STRING.format(limit=..., offset=...)
OFFSET_LIMIT_STRING(limit, offset) ==
    Space \o kw_limit \o Space \o IntToStr(limit)
          \o Space \o kw_offset \o Space \o IntToStr(offset)

\* the statements handed to execute and executemany
StmtSelect == kw_select \o <<" ", "a">>                       \* "select a"
StmtSelectSemi == <<" ", "S", "E", "L", "E", "C", "T", " ", "a", ";", " ">>
                                                              \* " SELECT a; "
StmtSelectLimit == kw_select \o <<" ", "a", " ", "L", "I", "M", "I", "T",
                                  " ", "2", ";", " ">>    \* "select a LIMIT 2; "
StmtInsert == <<" ", "i", "n", "s", "e", "r", "t", " ", "b", ";">>
                                                              \* " insert b;"
Statements == {StmtSelect, StmtSelectSemi, StmtSelectLimit, StmtInsert}

(* -------------------------- execution planner ------------------------- *)
\* IsPaginable searching "limit" in the statement as written, not case-folded
IsPaginableCaseSensitive(sql) ==
    LET formatted_sql == Strip(sql)
    IN  /\ SubSeq(Lower(formatted_sql), 1,
                  IF Len(formatted_sql) < PREFIX_LEN
                  THEN Len(formatted_sql) ELSE PREFIX_LEN) = kw_select
        /\ Find(formatted_sql, kw_limit) = -1

\* the condition of the `if` at the head of execute
IsPaginable(sql) ==
    LET formatted_lower_sql == Lower(Strip(sql))
    IN  /\ SubSeq(formatted_lower_sql, 1,
                  IF Len(formatted_lower_sql) < PREFIX_LEN
                  THEN Len(formatted_lower_sql) ELSE PREFIX_LEN) = kw_select
        /\ Find(formatted_lower_sql, kw_limit) = -1

\* formatted_sql as execute leaves it for the probe and the batch loop
FormattedSql(sql) ==
    LET formatted_sql == Strip(sql)
    IN  IF EndsWith(formatted_sql, Semicolon)
        THEN SubSeq(formatted_sql, 1, Len(formatted_sql) - 1)
        ELSE formatted_sql

(* ------------------------------- state -------------------------------- *)
VARIABLES
    _closed,                \* Cursor._closed
    _result,                \* Cursor._result
    rows,                   \* Cursor.rows
    execute_stmt,           \* Cursor.execute_stmt, the __execute generator
    next_gen,               \* Cursor.next_gen, what the fetch methods read
    arraysize,              \* Cursor.arraysize
    batch_size,             \* Cursor.batch_size
    conn_closed,            \* connection._closed
    table,                  \* the rows the server holds
    calls,                  \* client calls since the last execute/executemany began
    exec,                   \* the last execute/executemany call
    last,                   \* the last call made on the cursor or its connection
    delivered               \* rows the fetch calls returned since exec, in order

vars == <<_closed, _result, rows, execute_stmt, next_gen, arraysize, batch_size,
          conn_closed, table, calls, exec, last, delivered>>

\* Optional values: None is the empty tuple, a value v is <<v>>
None == <<>>
Some(v) == <<v>>

(* ------------------------------ versions ------------------------------ *)
BULK_INSERT_MIN_VERSION == <<0, 42, 0>>

\* StrictVersion.__ge__ on (major, minor, patch)
VersionGE(a, b) ==
    \/ a[1] > b[1]
    \/ a[1] = b[1] /\ a[2] > b[2]
    \/ a[1] = b[1] /\ a[2] = b[2] /\ a[3] >= b[3]

ServerVersions == {<<0, 41, 9>>, <<0, 42, 0>>}

(* ------------------------------ results ------------------------------- *)
\* A result dict.  isNone: the attribute holds None.  hasRows: the "rows" key
\* is present.  An absent "rowcount"/"duration" reads as -1 everywhere the
\* cursor reads it, so absence is the value -1.  results: None or the list of
\* per-statement rowcounts.
NoneResult ==
    [isNone |-> TRUE, hasRows |-> FALSE, rows |-> <<>>, rowcount |-> -1,
     duration |-> -1, cols |-> <<>>, results |-> None]

MkResult(hasRows, rs, rowcount, duration, results) ==
    [isNone |-> FALSE, hasRows |-> hasRows, rows |-> rs, rowcount |-> rowcount,
     duration |-> duration, cols |-> IF hasRows THEN <<"a">> ELSE <<>>,
     results |-> results]

(* ------------------------------- client ------------------------------- *)
Min(a, b) == IF a < b THEN a ELSE b

\* the rows a `limit` / `offset` pair selects from the server's table
Slice(limit, offset) == SubSeq(table, offset + 1, Min(offset + limit, Len(table)))

\* per-statement rowcounts of a bulk call over n parameter sets: every
\* statement failed (-2), or the first one failed, affected no row or affected
\* one row and each other one affected one row
BulkResults(n) ==
    {[i \in 1..n |-> -2]} \cup {[i \in 1..n |-> IF i = 1 THEN first ELSE 1] :
                                    first \in {-2, 0, 1}}

Reject == [ok |-> FALSE, result |-> NoneResult]
Accept(result) == [ok |-> TRUE, result |-> result]

\* per-statement results of a call that carries bulk parameters
ResultsFor(bulk_parameters, rcs) ==
    IF bulk_parameters = None THEN None ELSE Some(rcs)

\* the answer to a page call is the slice; its duration grows with the offset
PageResponse(limit, offset, bulk_parameters) ==
    LET rs == Slice(limit, offset)
    IN  Accept(MkResult(TRUE, rs, Len(rs), offset + 1,
                        ResultsFor(bulk_parameters,
                                   IF bulk_parameters = None THEN <<>>
                                   ELSE [i \in 1..Len(bulk_parameters[1]) |-> 0])))

\* the answer to an accepted probe is the first row
ProbeResponse(ok, bulk_parameters, rcs) ==
    IF ok
    THEN LET rs == Slice(1, 0)
         IN  Accept(MkResult(TRUE, rs, Len(rs), 0, ResultsFor(bulk_parameters, rcs)))
    ELSE Reject

\* what the server can answer to a statement sent as it is: a rejection, the
\* whole table, an empty row list with a rowcount, or no "rows" key at all
DirectAnswers ==
    {[ok |-> FALSE, hasRows |-> FALSE, full |-> FALSE, rowcount |-> -1, duration |-> -1],
     [ok |-> TRUE, hasRows |-> TRUE, full |-> TRUE, rowcount |-> -1, duration |-> 3],
     [ok |-> TRUE, hasRows |-> TRUE, full |-> FALSE, rowcount |-> 1, duration |-> 0],
     [ok |-> TRUE, hasRows |-> FALSE, full |-> FALSE, rowcount |-> 1, duration |-> -1]}

\* and to a statement sent with bulk parameters: a rejection, per-statement
\* results without "rows", or results together with the whole table
BulkAnswers ==
    {[ok |-> FALSE, hasRows |-> FALSE, full |-> FALSE, rowcount |-> -1, duration |-> -1],
     [ok |-> TRUE, hasRows |-> FALSE, full |-> FALSE, rowcount |-> -1, duration |-> 0],
     [ok |-> TRUE, hasRows |-> TRUE, full |-> TRUE, rowcount |-> -1, duration |-> -1]}

DirectResponse(a, bulk_parameters, rcs) ==
    IF ~a.ok THEN Reject
    ELSE IF a.full
    THEN Accept(MkResult(TRUE, table, Len(table), a.duration,
                         ResultsFor(bulk_parameters, rcs)))
    ELSE Accept(MkResult(a.hasRows, <<>>, a.rowcount, a.duration,
                         ResultsFor(bulk_parameters, rcs)))

(* ------------------------- the cursor as a value ----------------------- *)
\* execute_stmt names the __execute generator the attribute refers to by the
\* arguments it was created with.  The frames of that generator (offset) and
\* of the generator made by next() (the batch being flattened and the index
\* of the row last yielded) are held in next_gen, which alone advances them;
\* a finished generator keeps no frame.
NoGenerator ==
    [state |-> "none", sql |-> <<>>, parameters |-> None, bulk_parameters |-> None]

NoneGen ==
    [kind |-> "None", list |-> <<>>, state |-> "none", batch |-> <<>>, idx |-> 0,
     offset |-> 0]
ListGen(rs) == [NoneGen EXCEPT !.kind = "list", !.list = rs]
NewGen == [NoneGen EXCEPT !.kind = "generator", !.state = "new"]
DoneGen == [NoneGen EXCEPT !.kind = "generator", !.state = "done"]

Self ==
    [_closed |-> _closed, _result |-> _result, rows |-> rows,
     execute_stmt |-> execute_stmt, next_gen |-> next_gen, calls |-> calls]

Call(site, sql, parameters, bulk_parameters, resp) ==
    [site |-> site, sql |-> sql, parameters |-> parameters,
     bulk_parameters |-> bulk_parameters, ok |-> resp.ok, result |-> resp.result]

(* --------------------------- __really_execute -------------------------- *)
\* ReallyExecute merging the answer into _result: rowcount and duration are
\* added to those _result already holds
ReallyExecuteMerging(c, site, sql, parameters, bulk_parameters, resp) ==
    IF conn_closed
    THEN [c |-> c, exc |-> "ProgrammingError", rows |-> None]
    ELSE IF c._closed
    THEN [c |-> c, exc |-> "ProgrammingError", rows |-> None]
    ELSE LET logged == Append(c.calls, Call(site, sql, parameters, bulk_parameters, resp))
             merged == IF c._result.isNone \/ site # "page" THEN resp.result
                       ELSE [resp.result EXCEPT
                                !.rowcount = @ + c._result.rowcount,
                                !.duration = @ + c._result.duration]
         IN  IF ~resp.ok
             THEN [c |-> [c EXCEPT !.calls = logged],
                   exc |-> "ProgrammingError", rows |-> None]
             ELSE [c |-> [c EXCEPT !._result = merged, !.calls = logged],
                   exc |-> "",
                   rows |-> IF resp.result.hasRows /\ Len(resp.result.rows) > 0
                            THEN Some(resp.result.rows) ELSE None]

ReallyExecute(c, site, sql, parameters, bulk_parameters, resp) ==
    IF conn_closed
    THEN [c |-> c, exc |-> "ProgrammingError", rows |-> None]
    ELSE IF c._closed
    THEN [c |-> c, exc |-> "ProgrammingError", rows |-> None]
    ELSE LET logged == Append(c.calls, Call(site, sql, parameters, bulk_parameters, resp))
         IN  IF ~resp.ok
             THEN [c |-> [c EXCEPT !.calls = logged],
                   exc |-> "ProgrammingError", rows |-> None]
             ELSE [c |-> [c EXCEPT !._result = resp.result, !.calls = logged],
                   exc |-> "",
                   rows |-> IF resp.result.hasRows /\ Len(resp.result.rows) > 0
                            THEN Some(resp.result.rows) ELSE None]

(* ------------------------------ __execute ------------------------------ *)
\* Operators that use a call's outcome more than once take it as a parameter
\* (XAfter(r, ...)), so that the call is evaluated once.

\* ExecuteGenNextAfter advancing the offset by batch_size, not by len(rows)
ExecuteGenNextAfterFixedStep(r, offset) ==
    IF r.exc # ""
    THEN [c |-> r.c, out |-> "raise", rows |-> <<>>, offset |-> offset]
    ELSE IF r.rows = None
    THEN [c |-> r.c, out |-> "stop", rows |-> <<>>, offset |-> offset]
    ELSE [c |-> r.c, out |-> "yield", rows |-> r.rows[1],
          offset |-> offset + batch_size]

\* the rest of one loop iteration, r being what __really_execute returned
ExecuteGenNextAfter(r, offset) ==
    IF r.exc # ""
    THEN [c |-> r.c, out |-> "raise", rows |-> <<>>, offset |-> offset]
    ELSE IF r.rows = None
    THEN [c |-> r.c, out |-> "stop", rows |-> <<>>, offset |-> offset]
    ELSE [c |-> r.c, out |-> "yield", rows |-> r.rows[1],
          offset |-> offset + Len(r.rows[1])]

\* one resumption of the __execute generator: out is "yield" (with rows and
\* the new offset), "stop" (StopIteration) or "raise"
ExecuteGenNext(c) ==
    LET es == c.execute_stmt
        offset == c.next_gen.offset
        batched_sql == es.sql \o OFFSET_LIMIT_STRING(batch_size, offset)
    IN  ExecuteGenNextAfter(
            ReallyExecute(c, "page", batched_sql, es.parameters, es.bulk_parameters,
                          PageResponse(batch_size, offset, es.bulk_parameters)),
            offset)

(* --------------------------------- next -------------------------------- *)
\* one resumption of the generator made by next(): out is "yield" (with
\* row), "stop" or "raise" (ProgrammingError)
\* YieldRow yielding the first row of the batch at every index
YieldRowFirst(c, batch, idx, offset) ==
    IF c._closed
    THEN [c |-> [c EXCEPT !.next_gen = DoneGen], out |-> "raise", row |-> 0]
    ELSE [c |-> [c EXCEPT !.next_gen =
                    [NewGen EXCEPT !.state = "suspended", !.batch = batch,
                                   !.idx = idx, !.offset = offset]],
          out |-> "yield", row |-> batch[1]]

\* YieldRow without the test of _closed
YieldRowUnchecked(c, batch, idx, offset) ==
    [c |-> [c EXCEPT !.next_gen =
                [NewGen EXCEPT !.state = "suspended", !.batch = batch,
                               !.idx = idx, !.offset = offset]],
     out |-> "yield", row |-> batch[idx]]

YieldRow(c, batch, idx, offset) ==
    IF c._closed
    THEN [c |-> [c EXCEPT !.next_gen = DoneGen], out |-> "raise", row |-> 0]
    ELSE [c |-> [c EXCEPT !.next_gen =
                    [NewGen EXCEPT !.state = "suspended", !.batch = batch,
                                   !.idx = idx, !.offset = offset]],
          out |-> "yield", row |-> batch[idx]]

\* the outer loop has asked execute_stmt for its next batch and got e
NextGenNextAfter(e) ==
    IF e.out = "yield"
    THEN YieldRow(e.c, e.rows, 1, e.offset)
    ELSE [c |-> [e.c EXCEPT !.next_gen = DoneGen], out |-> e.out, row |-> 0]

\* NextGenNext asking execute_stmt for a batch again after it has finished
NextGenNextRestarting(c) ==
    LET g == c.next_gen
    IN  IF g.state = "suspended" /\ g.idx < Len(g.batch)
        THEN YieldRow(c, g.batch, g.idx + 1, g.offset)
        ELSE NextGenNextAfter(ExecuteGenNext(c))

NextGenNext(c) ==
    LET g == c.next_gen
    IN  IF g.state = "done"
        THEN [c |-> c, out |-> "stop", row |-> 0]
        ELSE IF g.state = "suspended" /\ g.idx < Len(g.batch)
        THEN YieldRow(c, g.batch, g.idx + 1, g.offset)
        ELSE NextGenNextAfter(ExecuteGenNext(c))

(* ----------------------------- accessors ------------------------------ *)
\* RowcountOf with 0 as the value of "no rowcount"
RowcountOfZeroSentinel(c) ==
    IF c._closed \/ c._result.isNone \/ ~c._result.hasRows
    THEN 0
    ELSE c._result.rowcount

RowcountOf(c) ==
    IF c._closed \/ c._result.isNone \/ ~c._result.hasRows
    THEN -1
    ELSE c._result.rowcount

DurationOf(c) ==
    IF c._closed \/ c._result.isNone \/ c._result.duration = -1
    THEN -1
    ELSE c._result.duration

(* ---------------------------- fetch surface ---------------------------- *)
\* Each returns [c, out, val]: out is "return" or the exception raised, val
\* the rows returned (for fetchone: <<row>>, or <<>> for None).
FetchoneAfter(r) ==
    CASE r.out = "yield" -> [c |-> r.c, out |-> "return", val |-> <<r.row>>]
      [] r.out = "stop" -> [c |-> r.c, out |-> "return", val |-> <<>>]
      [] OTHER -> [c |-> r.c, out |-> "ProgrammingError", val |-> <<>>]

Fetchone(c) ==
    IF c.next_gen.kind # "generator"
    THEN [c |-> c, out |-> "TypeError", val |-> <<>>]
    ELSE FetchoneAfter(NextGenNext(c))

\* the loop `for row in self.next_gen` over the generator, ending when
\* `count` rows are collected (count = 0: no such end); r is what the
\* generator gave when asked for the next row
\* IterateGenAfter giving up the rest of the batch when it returns early
RECURSIVE IterateGenAfterDroppingBatch(_, _, _)
IterateGenAfterDroppingBatch(r, count, result) ==
    CASE r.out = "yield" ->
           IF count > 0 /\ Len(result) + 1 >= count
           THEN [c |-> [r.c EXCEPT !.next_gen.idx = Len(r.c.next_gen.batch)],
                 out |-> "return", val |-> Append(result, r.row)]
           ELSE IterateGenAfterDroppingBatch(NextGenNext(r.c), count,
                                             Append(result, r.row))
      [] r.out = "stop" -> [c |-> r.c, out |-> "return", val |-> result]
      [] OTHER -> [c |-> r.c, out |-> "ProgrammingError", val |-> <<>>]

RECURSIVE IterateGenAfter(_, _, _)
IterateGenAfter(r, count, result) ==
    CASE r.out = "yield" ->
           IF count > 0 /\ Len(result) + 1 >= count
           THEN [c |-> r.c, out |-> "return", val |-> Append(result, r.row)]
           ELSE IterateGenAfter(NextGenNext(r.c), count, Append(result, r.row))
      [] r.out = "stop" -> [c |-> r.c, out |-> "return", val |-> result]
      [] OTHER -> [c |-> r.c, out |-> "ProgrammingError", val |-> <<>>]

IterateGen(c, count) == IterateGenAfter(NextGenNext(c), count, <<>>)

Fetchall(c) ==
    CASE c.next_gen.kind = "None" -> [c |-> c, out |-> "TypeError", val |-> <<>>]
      [] c.next_gen.kind = "list" -> [c |-> c, out |-> "return", val |-> c.next_gen.list]
      [] OTHER -> IterateGen(c, 0)

\* count is None or Some(n)
Fetchmany(c, count) ==
    LET n == IF count = None THEN arraysize ELSE count[1]
    IN  IF n = 0 THEN Fetchall(c)
        ELSE CASE c.next_gen.kind = "None" ->
                    [c |-> c, out |-> "TypeError", val |-> <<>>]
               [] c.next_gen.kind = "list" ->
                    [c |-> c, out |-> "return",
                     val |-> SubSeq(c.next_gen.list, 1, Min(n, Len(c.next_gen.list)))]
               [] OTHER -> IterateGen(c, n)

(* ------------------------------- execute ------------------------------- *)
\* env: the server's answers, [probe_ok, direct, rcs]
ExecuteDirectAfter(d) ==
    IF d.exc # ""
    THEN [c |-> d.c, exc |-> d.exc]
    ELSE [c |-> [d.c EXCEPT !.next_gen =
                    IF d.rows # None THEN ListGen(d.rows[1]) ELSE ListGen(<<>>)],
          exc |-> ""]

ExecuteDirect(c, sql, parameters, bulk_parameters, env) ==
    ExecuteDirectAfter(
        ReallyExecute(c, "direct", sql, parameters, bulk_parameters,
                      DirectResponse(env.direct, bulk_parameters, env.rcs)))

\* ExecuteAfterProbe letting the probe's ProgrammingError out
ExecuteAfterProbeRaising(p, formatted_sql, sql, parameters, bulk_parameters, env) ==
    IF p.exc = ""
    THEN [c |-> [p.c EXCEPT
                    !.execute_stmt =
                        [state |-> "generator", sql |-> formatted_sql,
                         parameters |-> parameters,
                         bulk_parameters |-> bulk_parameters],
                    !.next_gen = NewGen],
          exc |-> ""]
    ELSE [c |-> p.c, exc |-> p.exc]

\* ExecuteAfterProbe starting the row generator before it returns, which
\* issues the first page call
ExecuteAfterProbePulling(p, formatted_sql, sql, parameters, bulk_parameters, env) ==
    IF p.exc = ""
    THEN [c |-> NextGenNext([p.c EXCEPT
                    !.execute_stmt =
                        [state |-> "generator", sql |-> formatted_sql,
                         parameters |-> parameters,
                         bulk_parameters |-> bulk_parameters],
                    !.next_gen = NewGen]).c,
          exc |-> ""]
    ELSE ExecuteDirect(p.c, sql, parameters, bulk_parameters, env)

\* p is what the probe call returned
ExecuteAfterProbe(p, formatted_sql, sql, parameters, bulk_parameters, env) ==
    IF p.exc = ""
    THEN [c |-> [p.c EXCEPT
                    !.execute_stmt =
                        [state |-> "generator", sql |-> formatted_sql,
                         parameters |-> parameters,
                         bulk_parameters |-> bulk_parameters],
                    !.next_gen = NewGen],
          exc |-> ""]
    ELSE ExecuteDirect(p.c, sql, parameters, bulk_parameters, env)

Execute(c, sql, parameters, bulk_parameters, env) ==
    IF IsPaginable(sql)
    THEN ExecuteAfterProbe(
             ReallyExecute(c, "probe", FormattedSql(sql) \o PROBE_SUFFIX, parameters,
                           bulk_parameters,
                           ProbeResponse(env.probe_ok, bulk_parameters, env.rcs)),
             FormattedSql(sql), sql, parameters, bulk_parameters, env)
    ELSE ExecuteDirect(c, sql, parameters, bulk_parameters, env)

(* ----------------------------- executemany ----------------------------- *)
RECURSIVE Sum(_)
Sum(s) == IF s = <<>> THEN 0 ELSE Head(s) + Sum(Tail(s))

\* NonNegative leaving out zero
NonNegativeStrict(x) == x > 0

NonNegative(x) == x > -1

\* row_counts / durations after the accessor was read
Collect(collected, x) == IF NonNegative(x) THEN Append(collected, x) ELSE collected

\* the loop of the sequential path over seq_of_parameters[i..]; e is what
\* the execute for seq_of_parameters[i] did
RECURSIVE ExecuteEachAfter(_, _, _, _, _, _, _)
ExecuteEachAfter(e, sql, seq_of_parameters, envs, i, row_counts, durations) ==
    IF e.exc # ""
    THEN [c |-> e.c, exc |-> e.exc, row_counts |-> row_counts, durations |-> durations]
    ELSE IF i = Len(seq_of_parameters)
    THEN [c |-> e.c, exc |-> "",
          row_counts |-> Collect(row_counts, RowcountOf(e.c)),
          durations |-> Collect(durations, DurationOf(e.c))]
    ELSE ExecuteEachAfter(
             Execute(e.c, sql, Some(seq_of_parameters[i + 1]), None, envs[i + 1]),
             sql, seq_of_parameters, envs, i + 1,
             Collect(row_counts, RowcountOf(e.c)),
             Collect(durations, DurationOf(e.c)))

ExecuteEach(c, sql, seq_of_parameters, envs) ==
    IF seq_of_parameters = <<>>
    THEN [c |-> c, exc |-> "", row_counts |-> <<>>, durations |-> <<>>]
    ELSE ExecuteEachAfter(Execute(c, sql, Some(seq_of_parameters[1]), None, envs[1]),
                          sql, seq_of_parameters, envs, 1, <<>>, <<>>)

ExecuteBulkAfter(e) ==
    IF e.exc # ""
    THEN [c |-> e.c, exc |-> e.exc, row_counts |-> <<>>, durations |-> <<>>]
    ELSE [c |-> e.c, exc |-> "",
          row_counts |-> SelectSeq(IF e.c._result.results = None THEN <<>>
                                   ELSE e.c._result.results[1], NonNegative),
          durations |-> Collect(<<>>, DurationOf(e.c))]

ExecuteBulk(c, sql, seq_of_parameters, envs) ==
    ExecuteBulkAfter(Execute(c, sql, None, Some(seq_of_parameters), envs[1]))

\* the aggregate result and the return, m being what either path collected
ExecutemanyAfter(m) ==
    IF m.exc # ""
    THEN [c |-> m.c, out |-> m.exc, results |-> None]
    ELSE IF m.c._result.isNone
    THEN [c |-> m.c, out |-> "AttributeError", results |-> None]
    ELSE [c |-> [m.c EXCEPT
                    !._result =
                        [isNone |-> FALSE, hasRows |-> TRUE, rows |-> <<>>,
                         rowcount |-> IF m.row_counts # <<>>
                                      THEN Sum(m.row_counts) ELSE -1,
                         duration |-> IF m.durations # <<>>
                                      THEN Sum(m.durations) ELSE -1,
                         cols |-> m.c._result.cols,
                         results |-> m.c._result.results],
                    !.rows = "iter"],
          out |-> "return", results |-> m.c._result.results]

\* returns [c, out, results]: results is what executemany returns
Executemany(c, sql, seq_of_parameters, lowest_server_version, envs) ==
    ExecutemanyAfter(
        IF VersionGE(lowest_server_version, BULK_INSERT_MIN_VERSION)
        THEN ExecuteBulk(c, sql, seq_of_parameters, envs)
        ELSE ExecuteEach(c, sql, seq_of_parameters, envs))

(* ------------------------- iteration protocol --------------------------- *)
\* __iter__ returns the cursor itself, and each step of the iteration calls
\* __next__, which is next: a generator function.  The call creates a new
\* generator object, runs none of its body and returns that object; out is
\* "generator" for this return of an object that is no row.
CursorNext(c) == [c |-> c, out |-> "generator", val |-> <<>>]

(* -------------------------------- close -------------------------------- *)
\* CloseCursor as a switch: closing a closed cursor opens it
CloseCursorToggling(c) == [c EXCEPT !._closed = ~c._closed, !._result = NoneResult]

CloseCursor(c) == [c EXCEPT !._closed = TRUE, !._result = NoneResult]

(* ------------------------------ the inputs ----------------------------- *)
\* the answers the server may give during one execute of sql
EnvsFor(sql, bulk_parameters) ==
    LET rcss == IF bulk_parameters = None THEN {<<>>}
                ELSE BulkResults(Len(bulk_parameters[1]))
        answers == IF bulk_parameters = None THEN DirectAnswers ELSE BulkAnswers
        any == CHOOSE a \in answers : ~a.ok
    IN  {[probe_ok |-> FALSE, direct |-> a, rcs |-> r] : a \in answers, r \in rcss}
        \cup (IF IsPaginable(sql)
              THEN {[probe_ok |-> TRUE, direct |-> any, rcs |-> r] : r \in rcss}
              ELSE {})

\* the answers during one executemany: one execute on the bulk path, one per
\* parameter set otherwise
EnvSeqsFor(sql, seq_of_parameters, lowest_server_version) ==
    IF VersionGE(lowest_server_version, BULK_INSERT_MIN_VERSION)
    THEN [1..1 -> EnvsFor(sql, Some(seq_of_parameters))]
    ELSE [1..Len(seq_of_parameters) -> EnvsFor(sql, None)]

\* seq_of_parameters: n parameter sets, named n, n-1, ..., 1
ParamSeqs == {[i \in 1..n |-> n + 1 - i] : n \in 0..MaxParams}

BatchSizes == {DEFAULT_BATCH_SIZE} \cup 1..MaxBatch

Tables == {[i \in 1..n |-> i] : n \in 0..MaxRows}

\* the statements handed to executemany
ManyStatements == {StmtInsert, StmtSelectSemi}

NoCall ==
    [op |-> "none", count |-> None, out |-> "", val |-> <<>>, results |-> None,
     ncalls |-> 0]

NoExec == [op |-> "none", sql |-> <<>>, seq |-> None, bulk |-> FALSE, out |-> ""]

(* --------------------------------- Init -------------------------------- *)
Init ==
    /\ _closed = FALSE
    /\ _result = NoneResult
    /\ rows = "None"
    /\ execute_stmt = NoGenerator
    /\ next_gen = NoneGen
    /\ arraysize = DEFAULT_ARRAYSIZE
    /\ batch_size \in BatchSizes
    /\ conn_closed = FALSE
    /\ table \in Tables
    /\ calls = <<>>
    /\ exec = NoExec
    /\ last = NoCall
    /\ delivered = <<>>

(* ------------------------------- actions ------------------------------- *)
Install(c) ==
    /\ _closed' = c._closed
    /\ _result' = c._result
    /\ rows' = c.rows
    /\ execute_stmt' = c.execute_stmt
    /\ next_gen' = c.next_gen
    /\ calls' = c.calls

Called(op, count, out, val, results, ncalls) ==
    [op |-> op, count |-> count, out |-> out, val |-> val, results |-> results,
     ncalls |-> ncalls]

Executed(op, sql, seq, bulk, r, out, results) ==
    /\ Install(r.c)
    /\ exec' = [op |-> op, sql |-> sql, seq |-> seq, bulk |-> bulk, out |-> out]
    /\ last' = Called(op, None, out, <<>>, results, Len(r.c.calls))
    /\ delivered' = <<>>
    /\ UNCHANGED <<arraysize, batch_size, conn_closed, table>>

execute(sql, env) ==
    \E r \in {Execute([Self EXCEPT !.calls = <<>>], sql, None, None, env)} :
        Executed("execute", sql, None, FALSE, r,
                 IF r.exc = "" THEN "return" ELSE r.exc, None)

\* lowest_server_version is what the connection reports when it is read
executemany(sql, seq_of_parameters, lowest_server_version, envs) ==
    \E r \in {Executemany([Self EXCEPT !.calls = <<>>], sql, seq_of_parameters,
                          lowest_server_version, envs)} :
        Executed("executemany", sql, Some(seq_of_parameters),
                 VersionGE(lowest_server_version, BULK_INSERT_MIN_VERSION),
                 r, r.out, r.results)

\* fetch calls are followed while the rows delivered since the last execute
\* are at most one more than the table holds
Fetched(op, count, r) ==
    /\ Install(r.c)
    /\ last' = Called(op, count, r.out, r.val, None, Len(r.c.calls) - Len(calls))
    /\ delivered' = delivered \o r.val
    /\ UNCHANGED <<arraysize, batch_size, conn_closed, table, exec>>

fetchone ==
    /\ Len(delivered) <= Len(table)
    /\ \E r \in {Fetchone(Self)} : Fetched("fetchone", None, r)

fetchmany(count) ==
    /\ Len(delivered) <= Len(table)
    /\ \E r \in {Fetchmany(Self, count)} : Fetched("fetchmany", count, r)

fetchall ==
    /\ Len(delivered) <= Len(table)
    /\ \E r \in {Fetchall(Self)} : Fetched("fetchall", None, r)

close ==
    /\ Install(CloseCursor(Self))
    /\ last' = Called("close", None, "return", <<>>, None, 0)
    /\ UNCHANGED <<arraysize, batch_size, conn_closed, table,
                   exec, delivered>>

\* the caller assigns cursor.arraysize
SetArraysize(n) ==
    /\ arraysize' = n
    /\ arraysize # n
    /\ last' = Called("arraysize", None, "return", <<>>, None, 0)
    /\ UNCHANGED <<_closed, _result, rows, execute_stmt, next_gen, batch_size,
                   conn_closed, table, calls, exec, delivered>>

\* the connection is closed by its owner
CloseConnection ==
    /\ ~conn_closed
    /\ conn_closed' = TRUE
    /\ last' = Called("connection.close", None, "return", <<>>, None, 0)
    /\ UNCHANGED <<_closed, _result, rows, execute_stmt, next_gen, arraysize,
                   batch_size, table, calls, exec, delivered>>

\* one step of `for row in cursor`
__next__ ==
    \E r \in {CursorNext(Self)} :
        /\ Install(r.c)
        /\ last' = Called("__next__", None, r.out, r.val, None, 0)
        /\ UNCHANGED <<arraysize, batch_size, conn_closed, table, exec, delivered>>

\* the cursor driven through execute, the fetch methods and close
Next ==
    \/ \E sql \in Statements : \E env \in EnvsFor(sql, None) : execute(sql, env)
    \/ fetchone
    \/ \E count \in {None} \cup {Some(n) : n \in 0..MaxCount} : fetchmany(count)
    \/ fetchall
    \/ close
    \/ \E n \in 1..MaxCount : SetArraysize(n)

Spec == Init /\ [][Next]_vars

\* the same with a connection that may be closed under the cursor
NextConn ==
    \/ \E sql \in Statements : \E env \in EnvsFor(sql, None) : execute(sql, env)
    \/ fetchone
    \/ \E count \in {None} \cup {Some(n) : n \in 0..MaxCount} : fetchmany(count)
    \/ fetchall
    \/ close
    \/ CloseConnection

SpecConn == Init /\ [][NextConn]_vars

\* executemany, on a cursor with the default batch size over a full table,
\* among execute, fetchall and close
InitMany == Init /\ batch_size = DEFAULT_BATCH_SIZE /\ Len(table) = MaxRows

NextMany ==
    \/ \E sql \in {StmtInsert} : \E env \in EnvsFor(sql, None) : execute(sql, env)
    \/ \E sql \in ManyStatements : \E seq \in ParamSeqs : \E v \in ServerVersions :
         \E envs \in EnvSeqsFor(sql, seq, v) : executemany(sql, seq, v, envs)
    \/ fetchall
    \/ close

SpecMany == InitMany /\ [][NextMany]_vars

\* every operation of the cursor on one statement each, with a connection
\* that may be closed under it
NextAll ==
    \/ \E sql \in {StmtSelect} : \E env \in EnvsFor(sql, None) : execute(sql, env)
    \/ \E sql \in {StmtInsert} : \E seq \in ParamSeqs : \E v \in ServerVersions :
         \E envs \in EnvSeqsFor(sql, seq, v) : executemany(sql, seq, v, envs)
    \/ fetchone
    \/ \E count \in {None} \cup {Some(n) : n \in 0..MaxCount} : fetchmany(count)
    \/ fetchall
    \/ close
    \/ CloseConnection

SpecAll == InitMany /\ [][NextAll]_vars

\* the cursor iterated and read through fetchone
NextIter ==
    \/ \E sql \in Statements : \E env \in EnvsFor(sql, None) : execute(sql, env)
    \/ fetchone
    \/ __next__
    \/ close

SpecIter == Init /\ [][NextIter]_vars

(* ======================= properties of the cursor ====================== *)
\* vocabulary of the statements below
PaginableStatements == {StmtSelect, StmtSelectSemi}
DirectStatements == {StmtSelectLimit, StmtInsert}

\* "select a" and " SELECT a; " both leave this text for the probe and the pages
StrippedText(sql) ==
    IF sql = StmtSelect THEN kw_select \o <<" ", "a">>
    ELSE <<"S", "E", "L", "E", "C", "T", " ", "a">>

IsPrefix(s, t) == Len(s) <= Len(t) /\ s = SubSeq(t, 1, Len(s))

PageCalls == SelectSeq(calls, LAMBDA k : k.site = "page")

RECURSIVE RowsOf(_)
RowsOf(ks) == IF ks = <<>> THEN <<>> ELSE Head(ks).result.rows \o RowsOf(Tail(ks))

RECURSIVE RowsBefore(_, _)
RowsBefore(ks, k) == IF k <= 1 THEN 0 ELSE Len(ks[k - 1].result.rows) + RowsBefore(ks, k - 1)

\* the last execute took the paginated path on an open cursor, which is still open
PagedExecute ==
    /\ exec.op = "execute" /\ exec.out = "return" /\ ~_closed
    /\ exec.sql \in PaginableStatements
    /\ calls # <<>> /\ calls[1].ok

\* the rows the last execute made available, in order
Source == IF PagedExecute THEN table ELSE calls[Len(calls)].result.rows

\* the n of the last fetchmany call
LastCount == IF last.count = None THEN arraysize ELSE last.count[1]

\* C1: on an open cursor, a fetchall that returns after a paginated execute
\* leaves delivered exactly the rows of the page calls, batch after batch in
\* call order, which are the rows of the table: what fetchall returned is the
\* part of them no earlier fetch had returned, and all of them when it is the
\* first fetch.
C1_FetchallConcatenatesBatches ==
    (PagedExecute /\ last.op = "fetchall" /\ last.out = "return")
        => /\ delivered = RowsOf(PageCalls)
           /\ delivered = table
           /\ last.val = SubSeq(table, Len(table) - Len(last.val) + 1, Len(table))

\* fetchall, as the first fetch, has returned a whole table fetched in three
\* or more page calls
C1_Witness ==
    /\ PagedExecute /\ last.op = "fetchall" /\ last.out = "return"
    /\ last.val = table /\ Len(table) = MaxRows /\ Len(PageCalls) >= 3

\* C2 as stated: after a paginated execute the calls are the probe, then page
\* calls of which the k-th (k = 0, 1, ...) reads
\* " limit batch_size offset k*batch_size", the drain ending with the first
\* page call that returns no rows.
C2_Original ==
    PagedExecute
        => /\ calls[1].sql = StrippedText(exec.sql) \o PROBE_SUFFIX
           /\ \A k \in 2..Len(calls) :
                calls[k].sql = StrippedText(exec.sql)
                                 \o OFFSET_LIMIT_STRING(batch_size, (k - 2) * batch_size)
           /\ \A k \in 2..(Len(calls) - 1) : calls[k].result.rows # <<>>
           /\ next_gen.state = "done" => calls[Len(calls)].result.rows = <<>>

\* C2 amended: the calls are the probe, then page calls of which the k-th reads
\* " limit batch_size offset o" with o the number of rows the earlier page
\* calls returned; every page call but the last returned rows, and the drain
\* has ended exactly when the last page call returned none.
C2_PageCallsFollowRowsReturned ==
    PagedExecute
        => /\ calls[1].sql = StrippedText(exec.sql) \o PROBE_SUFFIX
           /\ calls[1].site = "probe"
           /\ \A k \in 2..Len(calls) :
                /\ calls[k].site = "page"
                /\ calls[k].sql = StrippedText(exec.sql)
                                    \o OFFSET_LIMIT_STRING(batch_size,
                                                           RowsBefore(PageCalls, k - 1))
           /\ \A k \in 2..(Len(calls) - 1) : calls[k].result.rows # <<>>
           /\ next_gen.state = "done"
                <=> (Len(calls) >= 2 /\ calls[Len(calls)].result.rows = <<>>)

\* a drain has ended after a page shorter than batch_size that was not empty
C2_Witness ==
    /\ PagedExecute /\ next_gen.state = "done" /\ Len(calls) >= 3
    /\ \E k \in 2..Len(calls) :
         calls[k].result.rows # <<>> /\ Len(calls[k].result.rows) < batch_size

\* C3: execute of a statement that does not start with "select" or that
\* contains "limit", on an open cursor, issues exactly one client call, and
\* that call carries the statement as it was given.
C3_DirectStatementSentOnce ==
    (last.op = "execute" /\ ~_closed /\ exec.sql \in DirectStatements)
        => /\ last.ncalls = 1 /\ Len(calls) = 1
           /\ calls[1].sql = exec.sql
           /\ calls[1].site = "direct"

\* "select a LIMIT 2; " was sent, and accepted
C3_Witness ==
    /\ last.op = "execute" /\ ~_closed /\ exec.sql = StmtSelectLimit
    /\ Len(calls) = 1 /\ calls[1].ok /\ calls[1].sql = StmtSelectLimit

\* C4: after a successful execute on either path, a fetchmany(n) with n >= 1
\* returns at most n rows, fewer than n only when the rows are exhausted, and
\* the rows returned so far are the first rows of what the execute made
\* available, each once (so that repeating it ends with an empty sequence
\* and gives what fetchall gives).
C4_FetchmanyDrains ==
    (exec.op = "execute" /\ exec.out = "return" /\ ~_closed
       /\ last.op = "fetchmany" /\ LastCount >= 1)
        => /\ last.out = "return"
           /\ Len(last.val) <= LastCount
           /\ IsPrefix(delivered, Source)
           /\ Len(last.val) < LastCount => delivered = Source

\* C5: after a successful execute on either path, fetchone returns the next
\* row not yet delivered, or None once all are delivered, and does not raise.
C5_FetchoneNextRow ==
    (exec.op = "execute" /\ exec.out = "return" /\ ~_closed /\ last.op = "fetchone")
        => /\ last.out = "return"
           /\ IsPrefix(delivered, Source)
           /\ last.val = <<>> => delivered = Source

\* C6: a call of execute, fetchone, fetchmany or fetchall made after close
\* raises ProgrammingError.
C6_ClosedCursorRaises ==
    (_closed /\ last.op \in {"execute", "fetchone", "fetchmany", "fetchall"})
        => last.out = "ProgrammingError"

(* -------------------- properties of executemany ----------------------- *)
RECURSIVE SumOfNonNegative(_)
SumOfNonNegative(s) ==
    IF s = <<>> THEN 0
    ELSE (IF Head(s) >= 0 THEN Head(s) ELSE 0) + SumOfNonNegative(Tail(s))

\* the sum of the entries that are >= 0, or -1 if none is
Aggregate(s) ==
    IF \A i \in 1..Len(s) : s[i] < 0 THEN -1 ELSE SumOfNonNegative(s)

LastCallResult == calls[Len(calls)].result

\* an executemany on the bulk path has returned
BulkReturned == last.op = "executemany" /\ exec.bulk /\ last.out = "return"

BulkAggregates ==
    /\ \A k \in 1..Len(calls) :
         calls[k].bulk_parameters = exec.seq /\ calls[k].parameters = None
    /\ RowcountOf(Self) = Aggregate(LastCallResult.results[1])
    /\ DurationOf(Self) = (IF LastCallResult.duration >= 0
                           THEN LastCallResult.duration ELSE -1)
    /\ last.results = LastCallResult.results

\* C7 as stated: executemany on the bulk path issues exactly one client call,
\* carrying all parameter sets as bulk parameters; then rowcount is the sum of
\* the per-statement rowcounts >= 0 (or -1), duration that call's duration if
\* >= 0 (else -1), and the per-statement results are returned.
C7_Original ==
    BulkReturned => (Len(calls) = 1 /\ BulkAggregates)

\* C7 amended: it makes one execute call carrying all parameter sets as bulk
\* parameters, which issues one client call, or two when the statement is
\* paginable and its probe is rejected (the probe, then the statement as
\* given); the aggregates and the return are those of the last of these calls.
C7_BulkOneExecute ==
    BulkReturned
        => /\ \/ Len(calls) = 1
              \/ /\ Len(calls) = 2 /\ exec.sql \in PaginableStatements
                 /\ ~calls[1].ok /\ calls[1].site = "probe"
                 /\ calls[2].sql = exec.sql
           /\ calls[Len(calls)].ok
           /\ BulkAggregates

\* the probe was rejected, and of the statements of the bulk call one failed
\* and the others affected rows
C7_Witness ==
    /\ BulkReturned /\ Len(calls) = 2 /\ Len(exec.seq[1]) = MaxParams
    /\ RowcountOf(Self) > 0
    /\ \E i \in 1..MaxParams : LastCallResult.results[1][i] < 0

OkCalls == SelectSeq(calls, LAMBDA k : k.ok)

RECURSIVE Observed(_, _)
Observed(ks, field) ==
    IF ks = <<>> THEN <<>>
    ELSE <<IF field = "rowcount"
           THEN (IF Head(ks).result.hasRows THEN Head(ks).result.rowcount ELSE -1)
           ELSE Head(ks).result.duration>> \o Observed(Tail(ks), field)

\* C8: executemany on the sequential path, on an open cursor and with no
\* statement rejected, makes one execute per parameter set, in order; then
\* rowcount and duration are the sums of the non-negative values observed
\* after each (or -1), and None is returned.  N = 0 included.
C8_SequentialAggregates ==
    (last.op = "executemany" /\ ~exec.bulk /\ ~_closed
       /\ last.out # "ProgrammingError")
        => /\ last.out = "return"
           /\ last.results = None
           /\ Len(OkCalls) = Len(exec.seq[1])
           /\ \A i \in 1..Len(OkCalls) :
                OkCalls[i].parameters = Some(exec.seq[1][i])
           /\ RowcountOf(Self) = Aggregate(Observed(OkCalls, "rowcount"))
           /\ DurationOf(Self) = Aggregate(Observed(OkCalls, "duration"))

(* ------------------------ rowcount and duration ------------------------ *)
\* C9: rowcount and duration are -1 while no execute was called and whenever
\* the cursor is closed.
C9_SentinelBeforeExecuteAndAfterClose ==
    (exec.op = "none" \/ _closed)
        => RowcountOf(Self) = -1 /\ DurationOf(Self) = -1

\* closed after an execute that succeeded and whose rows were being fetched
C9_Witness ==
    /\ _closed /\ exec.op = "execute" /\ exec.out = "return"
    /\ delivered # <<>> /\ last.op = "close"

\* C10: when the probe of a paginable statement is rejected, execute issues
\* exactly one more call, with the statement as given; if that call succeeds
\* execute returns, the row source is that call's rows and _result its
\* result; if it fails, execute raises that failure.
C10_ProbeRejectedFallsBack ==
    (last.op = "execute" /\ calls # <<>> /\ exec.sql \in PaginableStatements
       /\ ~calls[1].ok)
        => /\ Len(calls) = 2
           /\ calls[1].site = "probe"
           /\ calls[2].sql = exec.sql
           /\ calls[2].ok => /\ last.out = "return"
                             /\ next_gen = ListGen(calls[2].result.rows)
                             /\ _result = calls[2].result
           /\ ~calls[2].ok => last.out = "ProgrammingError"

\* the probe was rejected and the statement as given returned rows
C10_Witness ==
    /\ last.op = "execute" /\ exec.sql = StmtSelectSemi /\ Len(calls) = 2
    /\ ~calls[1].ok /\ calls[2].ok /\ next_gen.kind = "list" /\ next_gen.list # <<>>

(* -------------------- what execute leaves behind ----------------------- *)
FetchOps == {"fetchone", "fetchmany", "fetchall"}

C12_ExecutemanyEmptiesRows ==
    (exec.op = "executemany" /\ exec.out = "return" /\ ~_closed
       /\ last.op \in {"fetchmany", "fetchall"})
        => /\ last.out = "return"
           /\ last.val = <<>>

\* C13: after a successful execute, a step of the iteration over the cursor
\* either returns the next row not yet delivered or, once all rows are
\* delivered, ends the iteration.
C13_IterationYieldsRows ==
    (exec.op = "execute" /\ exec.out = "return" /\ ~_closed /\ last.op = "__next__")
        => \/ /\ last.out = "return" /\ Len(last.val) = 1
              /\ IsPrefix(delivered, Source)
           \/ /\ last.out = "StopIteration"
              /\ delivered = Source

(* ------------------------------- closing ------------------------------- *)
\* C14: close never raises and leaves the cursor closed; a close of a closed
\* cursor changes no attribute of it; and no step of any operation takes
\* _closed from TRUE back to FALSE.
C14_ClosedIsTerminal ==
    [][/\ _closed => _closed'
       /\ last'.op = "close" => (last'.out = "return" /\ _closed')
       /\ (_closed /\ last'.op = "close")
            => UNCHANGED <<_closed, _result, rows, execute_stmt, next_gen,
                           arraysize, batch_size>>]_vars

\* closed once more after an execute that was refused, without a client
\* call, because the cursor was closed
C14_Witness ==
    /\ _closed /\ last.op = "close" /\ ~conn_closed
    /\ exec.op = "execute" /\ exec.out = "ProgrammingError" /\ calls = <<>>

(* ------------------------------ batch loop ----------------------------- *)
\* C15: in a paginated execute every page call reads
\* " limit batch_size offset o", o being the number of rows the earlier page
\* calls returned; a page call that returned fewer than batch_size rows, but
\* some, is followed by another page call before the loop ends; the loop has
\* ended exactly when the last page call returned no rows; and a fetch made
\* when the loop has ended issues no client call.
C15_BatchLoop ==
    /\ [](PagedExecute
            => /\ \A k \in 1..Len(PageCalls) :
                    /\ PageCalls[k].sql =
                         StrippedText(exec.sql)
                           \o OFFSET_LIMIT_STRING(batch_size, RowsBefore(PageCalls, k))
                    /\ Len(PageCalls[k].result.rows) <= batch_size
                    /\ (k < Len(PageCalls)) => PageCalls[k].result.rows # <<>>
               /\ next_gen.state = "done"
                    <=> (PageCalls # <<>>
                         /\ PageCalls[Len(PageCalls)].result.rows = <<>>))
    /\ [][(next_gen.kind = "generator" /\ next_gen.state = "done"
            /\ last'.op \in FetchOps)
           => (calls' = calls /\ last'.val = <<>>)]_vars

\* a fetch made after the loop had ended, the loop having gone on after a
\* page shorter than batch_size
C15_Witness ==
    /\ PagedExecute /\ next_gen.state = "done"
    /\ last.op \in FetchOps /\ last.ncalls = 0 /\ Len(delivered) = MaxRows
    /\ \E k \in 1..Len(PageCalls) :
         /\ PageCalls[k].result.rows # <<>>
         /\ Len(PageCalls[k].result.rows) < batch_size

(* ----------------------- close during pagination ----------------------- *)
\* C16: when the cursor is closed and its paged sequence is not exhausted,
\* whether rows of the current batch remain or the next page has yet to be
\* fetched, the next fetch raises ProgrammingError; and no fetch on a closed
\* cursor with a paged sequence returns a row.
C16_CloseAbortsPagedFetch ==
    [][(_closed /\ next_gen.kind = "generator" /\ last'.op \in FetchOps)
       => /\ last'.val = <<>> /\ delivered' = delivered
          /\ calls' = calls
          /\ next_gen.state # "done" => last'.out = "ProgrammingError"]_vars

\* a fetch was refused after a close that fell in the middle of a batch
C16_Witness ==
    /\ _closed /\ last.op \in FetchOps /\ last.out = "ProgrammingError"
    /\ exec.op = "execute" /\ exec.out = "return"
    /\ Len(PageCalls) = 1 /\ Len(PageCalls[1].result.rows) = MaxRows
    /\ delivered # <<>> /\ Len(delivered) < MaxRows

(* --------------------- one execute after another ----------------------- *)
\* the rows the client calls of the last execute returned
RowsObtained == {RowsOf(calls)[i] : i \in 1..Len(RowsOf(calls))}

\* C17: after an execute on an open cursor, the fetches deliver only rows
\* that the client calls made for that execute returned, and none at all
\* when that execute raised.
C17_ExecuteResetsRowSource ==
    (exec.op = "execute" /\ ~_closed /\ last.op \in FetchOps)
        => /\ \A i \in 1..Len(delivered) : delivered[i] \in RowsObtained
           /\ exec.out # "return" => (last.val = <<>> /\ delivered = <<>>)

NeedsPage ==
    /\ next_gen.kind = "generator"
    /\ \/ next_gen.state = "new"
       \/ next_gen.state = "suspended" /\ next_gen.idx = Len(next_gen.batch)

\* C19: while the cursor or its connection is closed, an execute, an
\* executemany or a fetch issues no client call; the execute and the
\* executemany raise ProgrammingError, and so does a fetch that needs the
\* next page of a paginated query.
C19_NoCallOnceClosed ==
    /\ []((( _closed \/ conn_closed)
            /\ last.op \in {"execute", "executemany"} \cup FetchOps)
           => /\ last.ncalls = 0
              /\ last.op \in {"execute", "executemany"}
                   => last.out = "ProgrammingError")
    /\ [][((_closed \/ conn_closed) /\ NeedsPage /\ last'.op \in FetchOps)
           => (last'.out = "ProgrammingError" /\ calls' = calls)]_vars

(* ------------------------ a shared row source -------------------------- *)
\* the rows of the current batch not yet yielded
InHand ==
    IF next_gen.state = "suspended"
    THEN SubSeq(next_gen.batch, next_gen.idx + 1, Len(next_gen.batch))
    ELSE <<>>

\* C20: on the paginated path of an open cursor, whatever the order of the
\* fetchone, fetchmany and fetchall calls, the rows delivered followed by the
\* rows in hand are the rows of the page calls in page order, so that each
\* row goes to one call, once; and a fetch that finds a row in hand returns
\* it first, a fetchone or a fetchmany that finds enough rows in hand
\* issuing no page call.
C20_ExactlyOnceWhenShared ==
    /\ [](PagedExecute
            => /\ delivered \o InHand = RowsOf(PageCalls)
               /\ IsPrefix(RowsOf(PageCalls), table)
               /\ next_gen.state = "done" => delivered = table)
    /\ [][(PagedExecute /\ InHand # <<>> /\ last'.op \in FetchOps)
           => /\ last'.out = "return"
              /\ last'.val # <<>> /\ last'.val[1] = InHand[1]
              /\ (\/ last'.op = "fetchone"
                  \/ /\ last'.op = "fetchmany"
                     /\ last'.count # None /\ last'.count # Some(0)
                     /\ last'.count[1] <= Len(InHand))
                   => (calls' = calls /\ last'.val = SubSeq(InHand, 1, Len(last'.val)))]_vars

\* a fetchmany(1) took the row an earlier fetch had left of the batch,
\* without a page call, returning as soon as it had that row
C20_Witness ==
    /\ PagedExecute /\ last.op = "fetchmany" /\ LastCount = 1 /\ last.ncalls = 0
    /\ last.val = <<MaxRows>> /\ delivered = table /\ Len(table) = MaxRows
    /\ Len(PageCalls) = 1

====
